---- MODULE Spec2Model ----
(***************************************************************************)
(* The RNN disaggregator of nilmtk_contrib/torch/rnn_new.py as a state     *)
(* machine: the appliance parameter store, the model registry, the         *)
(* checkpoint files, and the steps of partial_fit / train_model /          *)
(* disaggregate_chunk, together with the windowing and statistics          *)
(* functions they call.                                                    *)
(*                                                                         *)
(* Numbers.  Readings are integers (watts).  Every floating point quantity *)
(* (a mean, a std, a normalised value, a prediction, an estimate) is kept  *)
(* in fixed point, as an integer count of 1/Scale units, rounded down.     *)
(* Names.  An appliance name is the sequence of its characters, so that    *)
(* str.replace(' ', '_') is computed and not assumed.                      *)
(***************************************************************************)
EXTENDS Integers, Sequences, FiniteSets, TLC

\* ------------------------------------------------------------- bounds
\* Fixed point resolution: one unit is 1/Scale.
Scale == 10
\* Longest mains chunk of the windowing harness.
MaxChunkLen == 3
\* Largest sequence_length // 2 of the windowing harness.
MaxPad == 2
\* n_epochs of the modelled estimator.
MaxEpochs == 2
\* Calls (partial_fit, disaggregate_chunk) made on one estimator.
MaxCalls == 2

\* ------------------------------------------------- program constants
\* params.get('mains_mean', 1800), params.get('mains_std', 600)
mains_mean == 1800
mains_std == 600
\* if len(train_main) > 10
MinWindows == 10
\* if app_std < 1: app_std = 100
StdThreshold == 1
StdFloor == 100

\* ------------------------------------------------------------ helpers
RECURSIVE Sum(_)
Sum(s) == IF s = <<>> THEN 0 ELSE Head(s) + Sum(Tail(s))

RECURSIVE SumSq(_)
SumSq(s) == IF s = <<>> THEN 0 ELSE Head(s) * Head(s) + SumSq(Tail(s))

\* pd.concat(list, axis=0) of series: one flat series, in order.
RECURSIVE Concat(_)
Concat(lst) == IF lst = <<>> THEN <<>> ELSE Head(lst) \o Concat(Tail(lst))

\* The largest r with r*r <= x, by bisection on lo..hi.
RECURSIVE IsqrtIn(_, _, _)
IsqrtIn(x, lo, hi) ==
    IF lo >= hi THEN lo
    ELSE LET mid == (lo + hi + 1) \div 2
         IN IF mid * mid <= x THEN IsqrtIn(x, mid, hi) ELSE IsqrtIn(x, lo, mid - 1)

Isqrt(x) == IsqrtIn(x, 0, 46340)

Zeros(k) == [i \in 1..k |-> 0]

\* ---------------------------------------------------- appliance names
NameK == <<"k">>
NameWM == <<"w", " ", "m">>
AppNames == {NameK, NameWM}

\* appliance_name.replace(' ', '_')
Replace(name) == [i \in DOMAIN name |-> IF name[i] = " " THEN "_" ELSE name[i]]

\* f"{file_prefix}-{appliance_name.replace(' ', '_')}-epoch{current_epoch}.pth"
FilePath(name, current_epoch) == <<Replace(name), current_epoch>>

\* ------------------------------------------------ Windower/Normalizer
\* (x - mean) / std, x a reading, mean and std in fixed point.
Normalize(x, mean, std) == ((x * Scale - mean) * Scale) \div std

\* A faulty variant: one unit of padding too few.
HalfLessOne(n) == n \div 2 - 1

\* units_to_pad = n // 2
units_to_pad(n) == n \div 2

\* np.pad(new_mains, (units_to_pad, units_to_pad), 'constant', constant_values=(0, 0))
Pad(series, k) == Zeros(k) \o series \o Zeros(k)

\* [new_mains[i:i + n] for i in range(len(new_mains) - n + 1)], then
\* (new_mains - mains_mean) / mains_std: the windows of one chunk.
Windows(mains, n) ==
    LET padded == Pad(mains, units_to_pad(n))
        count == IF Len(padded) - n + 1 > 0 THEN Len(padded) - n + 1 ELSE 0
    IN [i \in 1..count |->
          [j \in 1..n |->
             Normalize(SubSeq(padded, i, i + n - 1)[j], mains_mean * Scale, mains_std * Scale)]]

\* A faulty variant: the chunks are joined and padded once.
MainsFramesJoined(mains_lst, n) == << Windows(Concat(mains_lst), n) >>

\* for mains in mains_lst: ... mains_df_list.append(pd.DataFrame(new_mains))
MainsFrames(mains_lst, n) == [c \in DOMAIN mains_lst |-> Windows(mains_lst[c], n)]

\* pd.concat(train_main, axis=0).values.reshape((-1, sequence_length, 1)):
\* the windows of every chunk, in order; pd.concat of no frames raises ValueError.
TrainTensor(frames) ==
    IF frames = <<>> THEN [raised |-> "ValueError", tensor |-> <<>>]
    ELSE [raised |-> "none", tensor |-> Concat(frames)]

\* The first listed appliance without stats (0: every one has them).
RECURSIVE FirstUnknown(_, _, _)
FirstUnknown(params, submeters_lst, i) ==
    IF i > Len(submeters_lst) THEN 0
    ELSE IF submeters_lst[i][1] \in DOMAIN params
         THEN FirstUnknown(params, submeters_lst, i + 1)
         ELSE i

\* A faulty variant: only the first listed appliance's stats are looked up.
FirstMissingHeadOnly(params, submeters_lst) ==
    IF submeters_lst # <<>> /\ submeters_lst[1][1] \notin DOMAIN params THEN 1 ELSE 0

\* The first listed appliance that is not in self.appliance_params.
FirstMissing(params, submeters_lst) == FirstUnknown(params, submeters_lst, 1)

\* A faulty variant: missing stats are passed over in silence.
NoneMissing(params, submeters_lst) == 0

\* The position of the appliance call_preprocessing('train') raises
\* ApplianceNotFoundError at (0: it does not raise):
\* if app_name in self.appliance_params ... else raise ApplianceNotFoundError()
RaisesAt(params, submeters_lst) == FirstMissing(params, submeters_lst)

\* The appliance loop of call_preprocessing('train') when it does not raise:
\* per appliance its normalised readings, chunk by chunk.
AppFrames(params, submeters_lst) ==
    [a \in DOMAIN submeters_lst |->
       LET app_name == submeters_lst[a][1]
           df_list == submeters_lst[a][2]
       IN << app_name,
             [c \in DOMAIN df_list |->
                [r \in DOMAIN df_list[c] |->
                   Normalize(df_list[c][r], params[app_name].mean, params[app_name].std)]] >>]

\* --------------------------------------------- Appliance Parameter Store
np_mean(l) == (Sum(l) * Scale) \div Len(l)

\* The population standard deviation, sqrt(mean(x^2) - mean(x)^2).
np_std(l) == Isqrt((Len(l) * SumSq(l) - Sum(l) * Sum(l)) * Scale * Scale) \div Len(l)

\* A faulty variant: the computed std is kept whatever it is.
NoFloor(app_std) == app_std

\* if app_std < 1: app_std = 100
FloorStd(app_std) == IF app_std < StdThreshold * Scale THEN StdFloor * Scale ELSE app_std

\* The loop of set_appliance_params from entry i on.  pd.concat of an empty
\* df_list raises ValueError and leaves the entries stored so far.
RECURSIVE SetParamsFrom(_, _, _)
SetParamsFrom(params, train_appliances, i) ==
    IF i > Len(train_appliances) THEN [params |-> params, raised |-> "none"]
    ELSE LET app_name == train_appliances[i][1]
             df_list == train_appliances[i][2]
         IN IF df_list = <<>> THEN [params |-> params, raised |-> "ValueError"]
            ELSE LET l == Concat(df_list)
                     stats == [mean |-> np_mean(l), std |-> FloorStd(np_std(l))]
                     updated == [a \in DOMAIN params \cup {app_name} |->
                                   IF a = app_name THEN stats ELSE params[a]]
                 IN SetParamsFrom(updated, train_appliances, i + 1)

set_appliance_params(params, train_appliances) == SetParamsFrom(params, train_appliances, 1)

\* A faulty variant: stats are recomputed on every call.
AlwaysEmpty(params) == TRUE

\* if len(self.appliance_params) == 0
ParamsEmpty(params) == Cardinality(DOMAIN params) = 0


\* ------------------------------------------------------------- state
VARIABLES
    sequence_length,    \* self.sequence_length (odd: __init__ raises otherwise)
    appliance_params,   \* self.appliance_params: name -> [mean, std]
    models,             \* self.models: the names, in insertion order
    weights,            \* the parameters of each registered network
    files,              \* the checkpoint files: path -> saved parameters
    pc,                 \* "idle", or the place inside partial_fit
    call,               \* the call running or just ended; its appliance names
                        \* while it runs or after it raised (the traceback's
                        \* frame); raw: the networks' outputs in it
    queue,              \* partial_fit: the appliances still to train
    nwin,               \* partial_fit: len(train_main)
    cur,                \* train_model: appliance_name
    epoch,              \* train_model: epochs completed
    best_val_loss,      \* train_model: best_val_loss
    best_model_state,   \* train_model: best_model_state
    log,                \* train_model: per epoch, val_loss and the parameters then
    result,             \* how the last call ended
    test_predictions,   \* what the last disaggregate_chunk returned
    ncalls,             \* calls made so far
    mains_lst,          \* harness: the mains chunks handed in
    submeters_lst,      \* harness: the (name, chunks) pairs handed in
    mains_df_list,      \* harness: call_preprocessing's windows per chunk
    appliance_list,     \* harness: call_preprocessing's appliance frames
    train_main,         \* harness: partial_fit's train_main tensor
    stage               \* harness: the step reached

object == <<sequence_length, appliance_params, models, weights, files>>
locals == <<pc, call, queue, nwin, cur, epoch, best_val_loss, best_model_state, log>>
outcome == <<result, test_predictions, ncalls>>
harness == <<mains_lst, submeters_lst, mains_df_list, appliance_list, train_main, stage>>
vars == <<object, locals, outcome, harness>>

\* ------------------------------------------------------ input sets
\* Parameter vectors of a network, abstractly.
Weights == {0, 1}
\* Validation losses (finite).
Losses == 1..2
\* float('inf'): above every finite loss.
InfLoss == Cardinality(Losses) + 1
\* best_model_state = None
None == [ref |-> <<>>]
\* current_epoch
Rounds == {0, 1}

\* Stats handed to the constructor in params['appliance_params'].
SeededParams == (NameK :> [mean |-> 50 * Scale, std |-> 20 * Scale])

Ramp(len) == [i \in 1..len |-> 600 * (i % 3)]
Alt(len, a, b) == [i \in 1..len |-> IF i % 2 = 1 THEN a ELSE b]

\* Readings of one appliance over len samples: steady, or switching on and off.
Flat(len) == << Alt(len, 10, 10) >>
Swing(len) == << Alt(len, 0, 200) >>

\* Lists of at most two pairs (name, chunks), no name twice.
SubmeterLists(dfs) ==
    { <<>> }
    \cup { << <<a, d>> >> : a \in AppNames, d \in dfs }
    \cup { << <<ab[1], d>>, <<ab[2], e>> >> :
             ab \in {x \in AppNames \X AppNames : x[1] # x[2]}, d \in dfs, e \in dfs }

\* The partial_fit calls of the lifecycle.  Mains and appliances share their
\* index, so a call's series have one length: 3 readings (too few to train)
\* or MinWindows + 1.  Three calls break that: no chunk at all, an appliance
\* without chunks after one with, and targets shorter than the mains.
ShortCalls ==
    { [main |-> << Ramp(3) >>, apps |-> a, pre |-> p, round |-> 0] :
        a \in SubmeterLists({Flat(3), Swing(3)}), p \in BOOLEAN }
LongCalls ==
    { [main |-> << Ramp(MinWindows + 1) >>, apps |-> a, pre |-> p,
       round |-> IF Len(a) = 1 THEN 0 ELSE 1] :
        a \in SubmeterLists({Swing(MinWindows + 1)}) \ {<<>>}, p \in BOOLEAN }
OddCalls ==
    { [main |-> <<>>, apps |-> << <<NameK, Flat(3)>> >>, pre |-> TRUE, round |-> 0],
      [main |-> << Ramp(3) >>, apps |-> << <<NameK, Flat(3)>>, <<NameWM, <<>> >> >>,
       pre |-> TRUE, round |-> 0],
      [main |-> << Ramp(MinWindows + 1) >>, apps |-> << <<NameWM, Flat(3)>> >>,
       pre |-> TRUE, round |-> 0] }
FitCalls == ShortCalls \cup LongCalls \cup OddCalls

\* model=...: registries handed to disaggregate_chunk from outside.
ExternalModels ==
    { [order |-> <<NameK>>, w |-> (NameK :> 0)],
      [order |-> <<NameWM, NameK>>, w |-> (NameWM :> 1) @@ (NameK :> 0)] }
NoModel == [order |-> <<>>, w |-> <<>>]

\* test_main_list: at most two windows in all.
TestMains ==
    { <<>>, << <<>> >>, << <<600>> >>, << <<600, 2400>> >>, << <<600>>, <<2400>> >> }
\* The test_main_list of the lifecycle: an empty chunk, a chunk of one reading.
FewTestMains == { << <<>> >>, << <<600>> >> }

\* Raw network outputs (fixed point): -2.0, 0.0, 0.5.
Preds == {0 - 2 * Scale, 0, Scale \div 2}
\* One raw output per (window of the call, appliance).
PredTables == [(1..2) \X AppNames -> Preds]
\* The same raw output everywhere, below zero or above.
FewPredTables == { [x \in (1..2) \X AppNames |-> v] : v \in {0 - 2 * Scale, Scale \div 2} }
\* return_network(): the parameters of a new network.
FreshWeights == {0}

NoCall == [op |-> "none", names |-> <<>>, pre |-> TRUE, round |-> 0, raw |-> <<>>]

\* ------------------------------------------------------ construction
\* RNN.__init__: an empty registry; appliance_params from params or {}.
Init ==
    /\ sequence_length = 3
    /\ appliance_params \in {<<>>, SeededParams}
    /\ models = <<>>
    /\ weights = <<>>
    /\ files = <<>>
    /\ pc = "idle"
    /\ call = NoCall
    /\ queue = <<>>
    /\ nwin = 0
    /\ cur = <<>>
    /\ epoch = 0
    /\ best_val_loss = InfLoss
    /\ best_model_state = None
    /\ log = <<>>
    /\ result = "none"
    /\ test_predictions = <<>>
    /\ ncalls = 0
    /\ mains_lst = <<>>
    /\ submeters_lst = <<>>
    /\ mains_df_list = <<>>
    /\ appliance_list = <<>>
    /\ train_main = <<>>
    /\ stage = "off"

\* ------------------------------------------------------- partial_fit
Names(train_appliances) == [a \in DOMAIN train_appliances |-> train_appliances[a][1]]

\* partial_fit up to its appliance loop: the stats, the preprocessing, the
\* two concatenations.  With do_preprocessing false the caller hands in the
\* windows, built the same way, and nothing looks the stats up.
FitPrologue(params0, n, train_main_in, train_appliances, do_preprocessing) ==
    LET set == IF ParamsEmpty(params0)
               THEN set_appliance_params(params0, train_appliances)
               ELSE [params |-> params0, raised |-> "none"]
        unknown == do_preprocessing /\ RaisesAt(set.params, train_appliances) # 0
        tt == TrainTensor(MainsFrames(train_main_in, n))
        nodf == \E a \in DOMAIN train_appliances : train_appliances[a][2] = <<>>
        raised == IF set.raised # "none" THEN set.raised
                  ELSE IF unknown THEN "ApplianceNotFoundError"
                  ELSE IF tt.raised # "none" THEN tt.raised
                  ELSE IF nodf THEN "ValueError"
                  ELSE "none"
    IN [params |-> set.params,
        raised |-> raised,
        nwin |-> IF raised = "none" THEN Len(tt.tensor) ELSE 0,
        queue |-> IF raised = "none"
                  THEN [a \in DOMAIN train_appliances |->
                          [name |-> train_appliances[a][1],
                           len |-> Len(Concat(train_appliances[a][2]))]]
                  ELSE <<>>]

PartialFit(train_main_in, train_appliances, do_preprocessing, current_epoch) ==
    /\ pc = "idle"
    /\ ncalls < MaxCalls
    /\ LET pro == FitPrologue(appliance_params, sequence_length, train_main_in,
                              train_appliances, do_preprocessing)
       IN /\ appliance_params' = pro.params
          /\ queue' = pro.queue
          /\ nwin' = pro.nwin
          /\ pc' = IF pro.raised = "none" THEN "loop" ELSE "idle"
          /\ result' = IF pro.raised = "none" THEN "running" ELSE pro.raised
    /\ call' = [op |-> "partial_fit", names |-> Names(train_appliances),
                pre |-> do_preprocessing, round |-> current_epoch, raw |-> <<>>]
    /\ ncalls' = ncalls + 1
    /\ test_predictions' = <<>>
    /\ UNCHANGED <<sequence_length, models, weights, files>>
    /\ UNCHANGED <<cur, epoch, best_val_loss, best_model_state, log>>
    /\ UNCHANGED harness

InRegistry(name) == \E i \in DOMAIN models : models[i] = name

\* if len(train_main) > 10 (inside: if train_main.size > 0)
EnoughWindows(n) == n > 0 /\ n > MinWindows

\* One pass of "for appliance_name, power in ...": the model is looked up or
\* created, and train_model is entered when there are enough windows.
\* train_test_split raises ValueError when windows and targets differ in number.
TrainAppliance ==
    /\ pc = "loop"
    /\ queue # <<>>
    /\ LET appliance_name == Head(queue).name
       IN /\ \E fresh \in FreshWeights :
               IF InRegistry(appliance_name)
               THEN UNCHANGED <<models, weights>>
               ELSE /\ models' = Append(models, appliance_name)
                    /\ weights' = [a \in DOMAIN weights \cup {appliance_name} |->
                                     IF a = appliance_name THEN fresh ELSE weights[a]]
          /\ IF ~EnoughWindows(nwin)
             THEN /\ queue' = Tail(queue)
                  /\ UNCHANGED <<pc, result, cur, epoch, best_val_loss, best_model_state, log>>
             ELSE IF Head(queue).len # nwin
             THEN /\ queue' = <<>>
                  /\ pc' = "idle"
                  /\ result' = "ValueError"
                  /\ UNCHANGED <<cur, epoch, best_val_loss, best_model_state, log>>
             ELSE /\ pc' = "epochs"
                  /\ cur' = appliance_name
                  /\ epoch' = 0
                  /\ best_val_loss' = InfLoss
                  /\ best_model_state' = None
                  /\ log' = <<>>
                  /\ UNCHANGED <<queue, result>>
    /\ UNCHANGED <<sequence_length, appliance_params, files, call, nwin>>
    /\ UNCHANGED <<test_predictions, ncalls>>
    /\ UNCHANGED harness

\* ------------------------------------------------------- train_model
\* self.n_epochs
n_epochs == MaxEpochs

\* model.state_dict(): the mapping to the network's own parameter tensors.
StateDict(name) == [ref |-> name]

\* dict.copy(): a new mapping to the same tensors.
ShallowCopy(state) == state

\* The parameters a state mapping shows, given the networks' parameters.
Deref(state, wts) == wts[state.ref]

\* A faulty variant: a tie counts as an improvement.
ImprovedOrTied(val_loss, best) == val_loss <= best

\* if val_loss < best_val_loss
Improved(val_loss, best) == val_loss < best

\* One epoch: the training batches update the parameters in place, the
\* validation loss is measured, and a new best is snapshotted and saved.
Epoch ==
    /\ pc = "epochs"
    /\ epoch < n_epochs
    /\ \E w \in Weights, val_loss \in Losses :
         /\ weights' = [weights EXCEPT ![cur] = w]
         /\ log' = Append(log, [val_loss |-> val_loss, w |-> w])
         /\ IF Improved(val_loss, best_val_loss)
            THEN /\ best_val_loss' = val_loss
                 /\ best_model_state' = ShallowCopy(StateDict(cur))
                 /\ files' = [f \in DOMAIN files \cup {FilePath(cur, call.round)} |->
                                IF f = FilePath(cur, call.round)
                                THEN Deref(best_model_state', weights')
                                ELSE files[f]]
            ELSE UNCHANGED <<best_val_loss, best_model_state, files>>
    /\ epoch' = epoch + 1
    /\ UNCHANGED <<sequence_length, appliance_params, models>>
    /\ UNCHANGED <<pc, call, queue, nwin, cur>>
    /\ UNCHANGED outcome
    /\ UNCHANGED harness

\* if best_model_state is not None: model.load_state_dict(best_model_state);
\* train_model returns and the appliance loop goes on.
LoadBest ==
    /\ pc = "epochs"
    /\ epoch = n_epochs
    /\ weights' = IF best_model_state # None
                  THEN [weights EXCEPT ![cur] = Deref(best_model_state, weights)]
                  ELSE weights
    /\ pc' = "loop"
    /\ queue' = Tail(queue)
    /\ UNCHANGED <<sequence_length, appliance_params, models, files>>
    /\ UNCHANGED <<call, nwin, cur, epoch, best_val_loss, best_model_state, log>>
    /\ UNCHANGED outcome
    /\ UNCHANGED harness

\* The appliance loop is over: partial_fit returns, its locals are gone.
FitReturn ==
    /\ pc = "loop"
    /\ queue = <<>>
    /\ pc' = "idle"
    /\ result' = "ok"
    /\ call' = [call EXCEPT !.names = <<>>]
    /\ nwin' = 0
    /\ cur' = <<>>
    /\ epoch' = 0
    /\ best_val_loss' = InfLoss
    /\ best_model_state' = None
    /\ log' = <<>>
    /\ UNCHANGED object
    /\ UNCHANGED <<queue, test_predictions, ncalls>>
    /\ UNCHANGED harness


\* ------------------------------------------------ disaggregate_chunk
\* mean + prediction * std
Denormalize(prediction, mean, std) == mean + (prediction * std) \div Scale

\* A faulty variant: the estimate is passed on as it is.
NoClamp(v) == v

\* np.where(valid_predictions > 0, valid_predictions, 0)
Clamp(v) == IF v > 0 THEN v ELSE 0

\* The windows of the chunks before chunk c: where chunk c's rows start.
RECURSIVE RowsBefore(_, _)
RowsBefore(frames, c) == IF c <= 1 THEN 0 ELSE Len(frames[c - 1]) + RowsBefore(frames, c - 1)

\* What stops the pass over one chunk: np.concatenate of no batch raises
\* ValueError, a registry name without stats raises KeyError.
ChunkRaises(frame, order, params) ==
    IF order = <<>> THEN "none"
    ELSE IF Len(frame) = 0 THEN "ValueError"
    ELSE IF \E i \in DOMAIN order : order[i] \notin DOMAIN params THEN "KeyError"
    ELSE "none"

\* The table of one chunk: per registry name, one clamped estimate per window.
ChunkTable(frames, c, order, params, pred) ==
    [i \in DOMAIN order |->
       [appliance |-> order[i],
        series |-> [r \in DOMAIN frames[c] |->
                      Clamp(Denormalize(pred[<<RowsBefore(frames, c) + r, order[i]>>],
                                        params[order[i]].mean, params[order[i]].std))]]]

\* disaggregate_chunk(test_main_list, model): the registry is swapped when a
\* model is given, then every chunk is windowed and every registry model
\* predicts it.  pred holds the networks' raw outputs.
Disaggregate(test_main_list, model, pred) ==
    /\ pc = "idle"
    /\ ncalls < MaxCalls
    /\ models' = IF model # NoModel THEN model.order ELSE models
    /\ weights' = IF model # NoModel THEN model.w ELSE weights
    /\ LET frames == MainsFrames(test_main_list, sequence_length)
           bad == {c \in DOMAIN frames :
                     ChunkRaises(frames[c], models', appliance_params) # "none"}
       IN IF bad # {}
          THEN /\ result' = ChunkRaises(frames[CHOOSE c \in bad : \A d \in bad : c <= d],
                                        models', appliance_params)
               /\ test_predictions' = <<>>
          ELSE /\ result' = "ok"
               /\ test_predictions' =
                    [c \in DOMAIN frames |->
                       ChunkTable(frames, c, models', appliance_params, pred)]
    /\ call' = [op |-> "disaggregate_chunk", names |-> <<>>, pre |-> TRUE, round |-> 0,
                raw |-> pred]
    /\ ncalls' = ncalls + 1
    /\ UNCHANGED <<sequence_length, appliance_params, files>>
    /\ UNCHANGED <<pc, queue, nwin, cur, epoch, best_val_loss, best_model_state, log>>
    /\ UNCHANGED harness

\* ------------------------------------------------------ specification
Next ==
    \/ \E c \in FitCalls : PartialFit(c.main, c.apps, c.pre, c.round)
    \/ TrainAppliance
    \/ Epoch
    \/ LoadBest
    \/ FitReturn
    \/ \E t \in FewTestMains, m \in ExternalModels \cup {NoModel}, pred \in FewPredTables :
         Disaggregate(t, m, pred)

Spec == Init /\ [][Next]_vars

\* The estimator used with preprocessing on every partial_fit and without a
\* registry handed in from outside.
PreNext ==
    \/ \E c \in {x \in FitCalls : x.pre} : PartialFit(c.main, c.apps, c.pre, c.round)
    \/ TrainAppliance
    \/ Epoch
    \/ LoadBest
    \/ FitReturn
    \/ \E t \in FewTestMains, pred \in FewPredTables : Disaggregate(t, NoModel, pred)

PreSpec == Init /\ [][PreNext]_vars

\* --------------------------------------- disaggregate_chunk on its own
\* Stores and registries an estimator can hold when disaggregate_chunk is
\* called, here for the last time.
DisaggStores ==
    { SeededParams,
      (NameK :> [mean |-> 50 * Scale, std |-> 20 * Scale])
        @@ (NameWM :> [mean |-> 0, std |-> StdFloor * Scale]) }
DisaggRegistries ==
    { NoModel, [order |-> <<NameK>>, w |-> (NameK :> 1)] } \cup ExternalModels

DisaggInit ==
    /\ sequence_length = 3
    /\ appliance_params \in DisaggStores
    /\ \E m \in DisaggRegistries : models = m.order /\ weights = m.w
    /\ files = <<>>
    /\ pc = "idle"
    /\ call = NoCall
    /\ queue = <<>>
    /\ nwin = 0
    /\ cur = <<>>
    /\ epoch = 0
    /\ best_val_loss = InfLoss
    /\ best_model_state = None
    /\ log = <<>>
    /\ result = "none"
    /\ test_predictions = <<>>
    /\ ncalls = MaxCalls - 1
    /\ mains_lst = <<>>
    /\ submeters_lst = <<>>
    /\ mains_df_list = <<>>
    /\ appliance_list = <<>>
    /\ train_main = <<>>
    /\ stage = "off"

DisaggNext == \E t \in TestMains, pred \in PredTables : Disaggregate(t, NoModel, pred)

DisaggSpec == DisaggInit /\ [][DisaggNext]_vars

\* ------------------------- the data path of partial_fit, step by step
MainsVals == {600, 2400}
Chunks == UNION { [1..len -> MainsVals] : len \in 0..MaxChunkLen }
MainsLists == { <<>> } \cup { <<c>> : c \in Chunks } \cup { <<c, d>> : c \in Chunks, d \in Chunks }
FewMainsLists == { << <<600, 2400, 600>> >> }

\* Chunks of one appliance: none; steady readings (std 0); std 1/2; std 1;
\* two chunks with std 50 over both.
StatDfLists ==
    { <<>>, << <<10, 10, 10>> >>, << <<0, 1>> >>, << <<0, 2>> >>, << <<0>>, <<100>> >> }
FewSubmeterLists == { << <<NameK, << <<10, 10, 10>> >> >> >> }

SeqLengths == { 2 * k + 1 : k \in 0..MaxPad }

DataInit ==
    /\ sequence_length \in SeqLengths
    /\ appliance_params \in {<<>>, SeededParams}
    /\ models = <<>>
    /\ weights = <<>>
    /\ files = <<>>
    /\ pc = "idle"
    /\ call = NoCall
    /\ queue = <<>>
    /\ nwin = 0
    /\ cur = <<>>
    /\ epoch = 0
    /\ best_val_loss = InfLoss
    /\ best_model_state = None
    /\ log = <<>>
    /\ result = "none"
    /\ test_predictions = <<>>
    /\ ncalls = 0
    /\ \/ mains_lst \in MainsLists /\ submeters_lst \in FewSubmeterLists
       \/ mains_lst \in FewMainsLists /\ submeters_lst \in SubmeterLists(StatDfLists)
    /\ mains_df_list = <<>>
    /\ appliance_list = <<>>
    /\ train_main = <<>>
    /\ stage = "input"

\* partial_fit: if len(self.appliance_params) == 0: self.set_appliance_params(...)
DataSetParams ==
    /\ stage = "input"
    /\ LET set == IF ParamsEmpty(appliance_params)
                  THEN set_appliance_params(appliance_params, submeters_lst)
                  ELSE [params |-> appliance_params, raised |-> "kept"]
       IN /\ appliance_params' = set.params
          /\ stage' = CASE set.raised = "none" -> "stats_set"
                        [] set.raised = "kept" -> "stats_kept"
                        [] OTHER -> "stats_raised"
    /\ UNCHANGED <<sequence_length, models, weights, files>>
    /\ UNCHANGED locals
    /\ UNCHANGED outcome
    /\ UNCHANGED <<mains_lst, submeters_lst, mains_df_list, appliance_list, train_main>>

\* partial_fit: self.call_preprocessing(train_main, train_appliances, 'train')
DataTrainPre ==
    /\ stage \in {"stats_set", "stats_kept"}
    /\ IF RaisesAt(appliance_params, submeters_lst) # 0
       THEN /\ stage' = "pre_raised"
            /\ UNCHANGED <<mains_df_list, appliance_list>>
       ELSE /\ stage' = "train"
            /\ mains_df_list' = MainsFrames(mains_lst, sequence_length)
            /\ appliance_list' = AppFrames(appliance_params, submeters_lst)
    /\ UNCHANGED object
    /\ UNCHANGED locals
    /\ UNCHANGED outcome
    /\ UNCHANGED <<mains_lst, submeters_lst, train_main>>

\* partial_fit: train_main = pd.concat(train_main, axis=0) and the reshape
DataConcat ==
    /\ stage = "train"
    /\ LET tt == TrainTensor(mains_df_list)
       IN /\ train_main' = tt.tensor
          /\ stage' = IF tt.raised # "none" THEN "concat_raised" ELSE "tensor"
    /\ UNCHANGED object
    /\ UNCHANGED locals
    /\ UNCHANGED outcome
    /\ UNCHANGED <<mains_lst, submeters_lst, mains_df_list, appliance_list>>

\* disaggregate_chunk: self.call_preprocessing(test_main_list, None, 'test')
DataTestPre ==
    /\ stage = "input"
    /\ mains_df_list' = MainsFrames(mains_lst, sequence_length)
    /\ stage' = "test"
    /\ UNCHANGED object
    /\ UNCHANGED locals
    /\ UNCHANGED outcome
    /\ UNCHANGED <<mains_lst, submeters_lst, appliance_list, train_main>>

DataNext == DataSetParams \/ DataTrainPre \/ DataConcat \/ DataTestPre

DataSpec == DataInit /\ [][DataNext]_vars


\* ------------------------------------------------------------ claims
\* The epochs of a log whose validation loss no epoch of the log is below.
MinEpochs(l) == {i \in DOMAIN l : \A j \in DOMAIN l : l[i].val_loss <= l[j].val_loss}
\* The earliest of them.
EarliestMin(l) == CHOOSE i \in MinEpochs(l) : \A j \in MinEpochs(l) : i <= j

\* (x - mains_mean) / mains_std of a reading x, in fixed point.
NormOf(x) == ((x - mains_mean) * Scale) \div mains_std
\* Entry k of a series zero-padded by sequence_length // 2 on each end.
PaddedAt(series, k) ==
    LET at == k - sequence_length \div 2
    IN IF at \in 1..Len(series) THEN series[at] ELSE 0
\* The readings of the chunks before chunk c.
RECURSIVE ReadingsBefore(_)
ReadingsBefore(c) == IF c <= 1 THEN 0 ELSE Len(mains_lst[c - 1]) + ReadingsBefore(c - 1)

\* C1: when train_model returns after at least one improving epoch, the
\* live model holds the parameters it had at the end of an epoch of minimum
\* validation loss.
C1_BestRestored ==
    [][ (pc = "epochs" /\ pc' = "loop" /\ best_val_loss < InfLoss)
        => \E i \in MinEpochs(log) : weights'[cur] = log[i].w ]_vars

\* C2: inside a partial_fit call with fewer than 11 mains windows no step
\* raises, changes a model or adds one to the registry.
C2_SkipLeavesRegistry ==
    [][ (pc = "loop" /\ nwin < MinWindows + 1)
        => (models' = models /\ weights' = weights /\ result' \in {"running", "ok"}) ]_vars

\* C3: a partial_fit call with preprocessing that lists an appliance without
\* stats while the store is non-empty raises ApplianceNotFoundError at once:
\* registry, parameters, checkpoints and store are what they were.
C3_UnknownAborts ==
    [][ ( /\ pc = "idle"
          /\ call'.op = "partial_fit"
          /\ ncalls' = ncalls + 1
          /\ call'.pre
          /\ DOMAIN appliance_params # {}
          /\ \E i \in DOMAIN call'.names : call'.names[i] \notin DOMAIN appliance_params )
        => ( /\ result' = "ApplianceNotFoundError"
             /\ pc' = "idle"
             /\ models' = models
             /\ weights' = weights
             /\ files' = files
             /\ appliance_params' = appliance_params ) ]_vars

\* C3's case: the call raised with the unknown appliance listed second, after
\* a known one, on an estimator that already holds a model.
C3_Witness ==
    /\ result = "ApplianceNotFoundError"
    /\ Len(call.names) = 2
    /\ call.names[1] \in DOMAIN appliance_params
    /\ call.names[2] \notin DOMAIN appliance_params
    /\ models # <<>>

\* C4: once the store is non-empty no step changes it, and the only step
\* that changes it is the start of a partial_fit call made while it is empty.
C4_StatsOnce ==
    [][ /\ (DOMAIN appliance_params # {} => appliance_params' = appliance_params)
        /\ (appliance_params' # appliance_params
              => (pc = "idle" /\ call'.op = "partial_fit" /\ DOMAIN appliance_params = {}))
      ]_vars

\* C4's case: a partial_fit call ran on a non-empty store with an appliance
\* the store does not know; the appliance has a model and still no stats.
C4_Witness ==
    /\ call.op = "partial_fit"
    /\ result = "ok"
    /\ DOMAIN appliance_params = {NameK}
    /\ InRegistry(NameWM)

\* The fixed-point estimate of row r of column col of chunk c's table.
EstimateOf(c, col, r) ==
    LET before == IF c <= 1 THEN 0 ELSE Len(test_predictions[1][1].series)
        st == appliance_params[col.appliance]
    IN st.mean + (call.raw[<<before + r, col.appliance>>] * st.std) \div Scale

\* C5: every value of every table disaggregate_chunk returns is >= 0: it is
\* 0 where mean + prediction * std is negative or zero, and that estimate
\* itself where it is positive.
C5_NonNegative ==
    (call.op = "disaggregate_chunk" /\ result = "ok")
    => \A c \in DOMAIN test_predictions :
         \A i \in DOMAIN test_predictions[c] :
           LET col == test_predictions[c][i]
           IN \A r \in DOMAIN col.series :
                /\ col.series[r] >= 0
                /\ EstimateOf(c, col, r) <= 0 => col.series[r] = 0
                /\ EstimateOf(c, col, r) > 0 => col.series[r] = EstimateOf(c, col, r)

\* C5's case: one returned table holds a clamped negative estimate, a zero
\* estimate and a positive one.
C5_Witness ==
    /\ call.op = "disaggregate_chunk"
    /\ result = "ok"
    /\ \E c \in DOMAIN test_predictions :
         /\ \E i \in DOMAIN test_predictions[c] :
              \E r \in DOMAIN test_predictions[c][i].series :
                EstimateOf(c, test_predictions[c][i], r) < 0
         /\ \E i \in DOMAIN test_predictions[c] :
              \E r \in DOMAIN test_predictions[c][i].series :
                EstimateOf(c, test_predictions[c][i], r) = 0
         /\ \E i \in DOMAIN test_predictions[c] :
              \E r \in DOMAIN test_predictions[c][i].series :
                EstimateOf(c, test_predictions[c][i], r) > 0

\* C6: for train and for test, a chunk of L readings gives L windows of
\* sequence_length entries, window i being entries i..i+n-1 of the padded
\* chunk, normalised, with the i-th reading at its centre.
C6_WindowsPerChunk ==
    (stage \in {"train", "tensor", "concat_raised", "test"})
    => /\ Len(mains_df_list) = Len(mains_lst)
       /\ \A c \in DOMAIN mains_lst :
            /\ Len(mains_df_list[c]) = Len(mains_lst[c])
            /\ \A i \in DOMAIN mains_df_list[c] :
                 /\ Len(mains_df_list[c][i]) = sequence_length
                 /\ \A j \in 1..sequence_length :
                      mains_df_list[c][i][j] = NormOf(PaddedAt(mains_lst[c], i + j - 1))
                 /\ mains_df_list[c][i][sequence_length \div 2 + 1] = NormOf(mains_lst[c][i])

\* C6's case: training windows of length 5 over a chunk of 3 readings and a
\* chunk of 1.
C6_Witness ==
    /\ stage = "train"
    /\ sequence_length = 5
    /\ Len(mains_lst) = 2
    /\ Len(mains_lst[1]) = 3
    /\ Len(mains_lst[2]) = 1
    /\ Len(mains_df_list[1]) = 3

\* The stats stored for every listed appliance are those of its readings.
StoredAsComputed ==
    \A a \in DOMAIN submeters_lst :
      LET l == Concat(submeters_lst[a][2])
          n == Len(l)
          d == n * SumSq(l) - Sum(l) * Sum(l)
          st == appliance_params[submeters_lst[a][1]]
      IN /\ st.mean * n <= Sum(l) * Scale
         /\ Sum(l) * Scale < (st.mean + 1) * n
         /\ d < n * n => st.std = 100 * Scale
         /\ d >= n * n => /\ (st.std * n) * (st.std * n) <= d * Scale * Scale
                          /\ d * Scale * Scale < ((st.std + 1) * n) * ((st.std + 1) * n)
         /\ st.std >= Scale
         /\ l = <<10, 10, 10>> => (st.mean = 10 * Scale /\ st.std = 100 * Scale)

\* C7: when set_appliance_params computes stats, readings with std below 1
\* are stored with std 100 and their mean, readings with std at least 1 with
\* that std; no stored std is below 1.
C7_StdFloor == (stage = "stats_set") => StoredAsComputed

\* C7's case: stats were computed for readings with std 0 and for readings
\* with std exactly 1.
C7_Witness ==
    /\ stage = "stats_set"
    /\ Len(submeters_lst) = 2
    /\ Concat(submeters_lst[1][2]) = <<10, 10, 10>>
    /\ Concat(submeters_lst[2][2]) = <<0, 2>>
    /\ appliance_params[submeters_lst[2][1]].std = Scale

\* C8: after every epoch of a fit the checkpoint of (appliance, round) holds
\* the parameters of the earliest epoch with the least validation loss so
\* far, and best_val_loss is that least loss: a tie writes nothing, a loss
\* below every earlier one is saved in its own epoch.
C8_CheckpointIsEarliestBest ==
    (pc = "epochs" /\ log # <<>>)
    => /\ epoch = Len(log)
       /\ FilePath(cur, call.round) \in DOMAIN files
       /\ files[FilePath(cur, call.round)] = log[EarliestMin(log)].w
       /\ best_val_loss = log[EarliestMin(log)].val_loss

\* C8's case: the second epoch ties the first with other parameters, in
\* round 1.
C8_Witness ==
    /\ pc = "epochs"
    /\ Len(log) = 2
    /\ log[1].val_loss = log[2].val_loss
    /\ log[1].w # log[2].w
    /\ call.round = 1

\* C9 as claimed: the training windows are those of the chunks joined into
\* one series that is padded once.
C9_JoinedSeries ==
    (stage = "tensor")
    => /\ Len(train_main) = Len(Concat(mains_lst))
       /\ \A g \in DOMAIN train_main :
            \A j \in 1..sequence_length :
              train_main[g][j] = NormOf(PaddedAt(Concat(mains_lst), g + j - 1))

\* C9 amended: every chunk is padded on its own; the training windows are
\* the chunks' windows one after the other, and a window at a chunk's edge
\* holds padding zeros where the neighbouring chunk's readings would be.
C9_PerChunkPadding ==
    (stage = "tensor")
    => /\ Len(train_main) = Len(Concat(mains_lst))
       /\ \A c \in DOMAIN mains_lst :
            \A i \in DOMAIN mains_lst[c] :
              \A j \in 1..sequence_length :
                train_main[ReadingsBefore(c) + i][j] = NormOf(PaddedAt(mains_lst[c], i + j - 1))

\* C9's case: two chunks with readings, windows wider than one reading.
C9_Witness ==
    /\ stage = "tensor"
    /\ sequence_length >= 3
    /\ Len(mains_lst) = 2
    /\ Len(mains_lst[1]) >= 2
    /\ Len(mains_lst[2]) >= 2
    /\ train_main[Len(mains_lst[1])][sequence_length] = NormOf(0)

\* C10: with preprocessing on every partial_fit and no registry handed in,
\* every registry name has stats, and disaggregate_chunk never fails looking
\* stats up.
C10_RegistryHasStats ==
    /\ \A i \in DOMAIN models : models[i] \in DOMAIN appliance_params
    /\ result # "KeyError"

\* C10's case: disaggregate_chunk returned a table for two registered models
\* that a partial_fit with too few windows had created.
C10_Witness ==
    /\ call.op = "disaggregate_chunk"
    /\ result = "ok"
    /\ Len(models) = 2
    /\ test_predictions # <<>>
    /\ files = <<>>

====
